---------------------------- MODULE Spec2Model ----------------------------
(***************************************************************************)
(* Adaptive learning module of the hive monitor (src/learning.cpp,         *)
(* src/learning.h, src/config.h, src/config.cpp).                          *)
(*                                                                         *)
(* Numbers.  A C `float` is modelled as an integer number of 1/Scale       *)
(* units (fixed point), plus three IEEE special values (FInf, FNegInf,     *)
(* FNaN).  Every arithmetic operation computes the exact result and        *)
(* rounds it to the nearest unit, as a float operation rounds to the       *)
(* nearest float.  Scale is a multiple of 100, so the literals of the      *)
(* source (0.05, 0.01, 1013.25, ...) are exact, and a multiple of k*(k-1)  *)
(* for k <= 6, so Welford's recurrence is exact on the short sequences of  *)
(* (half-)integer samples used to check the estimator.                     *)
(***************************************************************************)
EXTENDS Integers, Sequences, FiniteSets, TLC

VARIABLES
    \* ---- static state of learning.cpp (lines 20-35)
    colonyBaseline,        \* SensorBaseline
    baselineEstablished,   \* bool
    learningSampleCount,   \* uint16_t
    currentSeason,         \* uint8_t
    tempStats, humidityStats, pressureStats, weightStats,
    audioStats,            \* RunningStats[NUM_AUDIO_BANDS]
    lightStats, motionStats,
    dailyPatterns,         \* DailyPattern[24][4]
    \* ---- environment
    sdCardAvailable,       \* data_logging.cpp: result of SD.begin at start-up
    card,                  \* the SD card: "ok", "readonly", "faulty", "absent"
    learnFile,             \* LEARN.DAT on the card: [exists, data]
    config,                \* config.cpp configItems: key -> text or NoValue
    \* ---- control and observation
    phase,                 \* "boot" (statics zero-initialised), "run";
                           \* "stats", "detect" in SpecStats, SpecDetect
    calls,                 \* updateLearningModel calls so far
    env,                   \* the regime of readings the sensors deliver
    odd,                   \* reset, partialReset, setStats calls on tempStats
    restarts,              \* number of power cycles so far
    cuts,                  \* power failures during a save so far
    samples,               \* values fed to tempStats since its last reset()
    fresh,                 \* tempStats saw only addSample since that reset()
    wasEstablished,        \* isBaselineEstablished() was true at some point
    last                   \* the last operation: its name, arguments, results

vars == << colonyBaseline, baselineEstablished, learningSampleCount,
           currentSeason, tempStats, humidityStats, pressureStats,
           weightStats, audioStats, lightStats, motionStats, dailyPatterns,
           sdCardAvailable, card, learnFile, config, phase, calls, env, odd,
           restarts, cuts, samples, fresh, wasEstablished, last >>

---------------------------------------------------------------------------
(* Floats                                                                  *)

Scale == 12 * 100

FInf == 2^30
FNegInf == -(2^30)
FNaN == 2^30 + 2^29

IntToFloat(n) == n * Scale

\* n / d rounded to the nearest integer, d > 0
RoundDiv(n, d) == (n + (d \div 2)) \div d

\* a decimal literal of the source: Lit(101325, 100) is 1013.25f
Lit(n, d) == RoundDiv(n * Scale, d)

IsFinite(x) == x > FNegInf /\ x < FInf

Sign(x) == IF x > 0 THEN 1 ELSE IF x < 0 THEN -1 ELSE 0

\* a finite result that leaves the range becomes an infinity
Fin(x) == IF x >= FInf THEN FInf ELSE IF x <= FNegInf THEN FNegInf ELSE x

\* r * Scale / b rounded to the nearest integer, for 0 <= r < b: a long
\* division in the factors 12, 10, 10 of Scale
ScaleDiv(r, b) ==
    LET s1 == r * 12
        s2 == (s1 % b) * 10
        s3 == (s2 % b) * 10
    IN  (s1 \div b) * 100 + (s2 \div b) * 10 + (s3 \div b)
        + (IF (s3 % b) + (b \div 2) >= b THEN 1 ELSE 0)

\* a * b / Scale and a * Scale / b (b > 0), rounded to the nearest integer;
\* split so that no intermediate product leaves 32 bits
MulDiv(a, b) == a * (b \div Scale) + RoundDiv(a * (b % Scale), Scale)
DivMul(a, b) == (a \div b) * Scale + ScaleDiv(a % b, b)

FNeg(x) == IF x = FNaN THEN FNaN ELSE -x

FAdd(a, b) ==
    IF a = FNaN \/ b = FNaN THEN FNaN
    ELSE IF IsFinite(a) /\ IsFinite(b) THEN Fin(a + b)
    ELSE IF IsFinite(a) THEN b
    ELSE IF IsFinite(b) THEN a
    ELSE IF a = b THEN a ELSE FNaN

FSub(a, b) == FAdd(a, FNeg(b))

FMul(a, b) ==
    IF a = FNaN \/ b = FNaN THEN FNaN
    ELSE IF IsFinite(a) /\ IsFinite(b) THEN Fin(MulDiv(a, b))
    ELSE IF a = 0 \/ b = 0 THEN FNaN
    ELSE IF Sign(a) * Sign(b) > 0 THEN FInf ELSE FNegInf

FDiv(a, b) ==
    IF a = FNaN \/ b = FNaN THEN FNaN
    ELSE IF IsFinite(a) /\ IsFinite(b) THEN
        IF b = 0 THEN (IF a > 0 THEN FInf ELSE IF a < 0 THEN FNegInf ELSE FNaN)
        ELSE IF b > 0 THEN Fin(DivMul(a, b))
        ELSE Fin(DivMul(-a, -b))
    ELSE IF IsFinite(a) THEN 0
    ELSE IF IsFinite(b) THEN (IF b >= 0 THEN a ELSE -a)
    ELSE FNaN

\* comparisons: every comparison with NaN is false
FLess(a, b) == a # FNaN /\ b # FNaN /\ a < b
FGreater(a, b) == FLess(b, a)

\* Arduino.h macros: abs(x) ((x)>0?(x):-(x)), min(a,b) ((a)<(b)?(a):(b)),
\* max(a,b) ((a)>(b)?(a):(b))
abs(x) == IF FGreater(x, 0) THEN x ELSE FNeg(x)
min(a, b) == IF FLess(a, b) THEN a ELSE b
max(a, b) == IF FGreater(a, b) THEN a ELSE b

RECURSIVE SqrtIter(_, _)
SqrtIter(n, g) ==
    LET h == (g + (n \div g)) \div 2
    IN  IF h >= g THEN g ELSE SqrtIter(n, h)

\* the integer nearest to the square root of n >= 0
ISqrt(n) ==
    IF n = 0 THEN 0
    ELSE LET r == SqrtIter(n, n)
         IN  IF n - r * r > r THEN r + 1 ELSE r

\* sqrt()
sqrt(x) ==
    IF x = FNaN \/ x < 0 THEN FNaN
    ELSE IF x = FInf THEN FInf
    ELSE ISqrt(x * Scale)

---------------------------------------------------------------------------
(* RunningStats (learning.h 45-63, learning.cpp 584-653)                   *)

\* RunningStats() : count_(0), mean_(0), M2_(0)
RunningStats == [count_ |-> 0, mean_ |-> 0, M2_ |-> 0]

reset(rs) == [count_ |-> 0, mean_ |-> 0, M2_ |-> 0]

\* (int)x of a float x: truncation toward zero
ToInt(x) == IF x >= 0 THEN x \div Scale ELSE -((-x) \div Scale)

IntMax(a, b) == IF a > b THEN a ELSE b

partialReset_KeepsEverySample(rs, keepRatio) ==
    IF rs.count_ > 0
    THEN [rs EXCEPT !.count_ = IntMax(1, rs.count_)]
    ELSE rs

partialReset(rs, keepRatio) ==
    IF rs.count_ > 0
    THEN [rs EXCEPT !.count_ =
            IntMax(1, ToInt(FMul(IntToFloat(rs.count_), keepRatio)))]
    ELSE rs

setStats_CountNotBessel(rs, m, stdDev) ==
    [count_ |-> 30, mean_ |-> m,
     M2_ |-> FMul(FMul(stdDev, stdDev), IntToFloat(30))]

setStats(rs, m, stdDev) ==
    [count_ |-> 30, mean_ |-> m,
     M2_ |-> FMul(FMul(stdDev, stdDev), IntToFloat(30 - 1))]

addSample_DeltaSquared(rs, value) ==
    LET c == rs.count_ + 1
        delta == FSub(value, rs.mean_)
        m == FAdd(rs.mean_, FDiv(delta, IntToFloat(c)))
    IN  [count_ |-> c, mean_ |-> m, M2_ |-> FAdd(rs.M2_, FMul(delta, delta))]

addSample(rs, value) ==
    LET c == rs.count_ + 1
        delta == FSub(value, rs.mean_)
        m == FAdd(rs.mean_, FDiv(delta, IntToFloat(c)))
        delta2 == FSub(value, m)
    IN  [count_ |-> c, mean_ |-> m, M2_ |-> FAdd(rs.M2_, FMul(delta, delta2))]

mean(rs) == IF rs.count_ > 0 THEN rs.mean_ ELSE 0

variance(rs) ==
    IF rs.count_ > 1 THEN FDiv(rs.M2_, IntToFloat(rs.count_ - 1)) ELSE 0

standardDeviation(rs) == sqrt(variance(rs))

count(rs) == rs.count_

---------------------------------------------------------------------------
(* Configuration (config.h) and types (learning.h)                         *)

NUM_AUDIO_BANDS == 4
ENABLE_LEARNING == 1
LEARNING_SAMPLES_MIN == 100
LEARNING_UPDATE_INTERVAL == 50
LEARNING_SAVE_INTERVAL == 20
LEARNING_ADAPTATION_RATE == Lit(5, 100)

THRESH_B1 == Lit(6, 10)
THRESH_B2 == Lit(4, 10)
THRESH_B3 == Lit(3, 10)
THRESH_B4 == Lit(2, 10)
MIN_AUDIO_THRESHOLD == Lit(5, 100)

TEMP_ALERT_LOW == Lit(30, 1)
TEMP_ALERT_HIGH == Lit(38, 1)
HUM_ALERT_LOW == Lit(50, 1)
HUM_ALERT_HIGH == Lit(70, 1)
MIN_SAFE_TEMP == Lit(25, 1)
MAX_SAFE_TEMP == Lit(42, 1)
MIN_SAFE_HUMIDITY == Lit(30, 1)
MAX_SAFE_HUMIDITY == Lit(90, 1)

TEMP_ANOMALY_THRESHOLD == Lit(3, 1)
HUMIDITY_ANOMALY_THRESHOLD == Lit(3, 1)
WEIGHT_ANOMALY_THRESHOLD == Lit(35, 10)
WEIGHT_CHANGE_THRESHOLD == Lit(2, 1)

Bands == 0 .. (NUM_AUDIO_BANDS - 1)
HourRange == 0 .. 23
SeasonRange == 0 .. 3

\* static storage before any code has run: all bytes zero
ZeroBaseline ==
    [tempMean |-> 0, tempStdDev |-> 0, humidityMean |-> 0,
     humidityStdDev |-> 0, pressureMean |-> 0, pressureStdDev |-> 0,
     weightMean |-> 0, weightStdDev |-> 0, weightDailyDelta |-> 0,
     audioEnergy |-> [i \in Bands |-> 0], audioStdDev |-> [i \in Bands |-> 0]]

ZeroPattern ==
    [activityLevel |-> 0, tempOffset |-> 0, humidityOffset |-> 0,
     sampleCount |-> 0]

ZeroMem(c, file) ==
    [colonyBaseline |-> ZeroBaseline,
     baselineEstablished |-> FALSE,
     learningSampleCount |-> 0,
     currentSeason |-> 0,
     tempStats |-> RunningStats, humidityStats |-> RunningStats,
     pressureStats |-> RunningStats, weightStats |-> RunningStats,
     audioStats |-> [i \in Bands |-> RunningStats],
     lightStats |-> RunningStats, motionStats |-> RunningStats,
     dailyPatterns |-> [h \in HourRange |-> [s \in SeasonRange |-> ZeroPattern]],
     sdCardAvailable |-> FALSE,
     card |-> c,
     learnFile |-> file]

---------------------------------------------------------------------------
(* The module's operations, as functions of the memory m: a record of the  *)
(* statics of learning.cpp, data_logging.cpp's sdCardAvailable, and the    *)
(* card with its LEARN.DAT                                                 *)

resetLearningSystem_KeepsCells(m) ==
    [m EXCEPT
        !.colonyBaseline =
            [tempMean |-> Lit(35, 1), tempStdDev |-> Lit(2, 1),
             humidityMean |-> Lit(60, 1), humidityStdDev |-> Lit(5, 1),
             pressureMean |-> Lit(101325, 100), pressureStdDev |-> Lit(5, 1),
             weightMean |-> 0, weightStdDev |-> Lit(1, 1),
             weightDailyDelta |-> Lit(2, 10),
             audioEnergy |-> [i \in Bands |->
                 CASE i = 0 -> THRESH_B1 [] i = 1 -> THRESH_B2
                   [] i = 2 -> THRESH_B3 [] OTHER -> THRESH_B4],
             audioStdDev |-> [i \in Bands |-> Lit(1, 10)]],
        !.audioStats = [i \in Bands |-> reset(@[i])],
        !.tempStats = reset(@), !.humidityStats = reset(@),
        !.pressureStats = reset(@), !.weightStats = reset(@),
        !.lightStats = reset(@), !.motionStats = reset(@),
        !.learningSampleCount = 0,
        !.baselineEstablished = FALSE]

resetLearningSystem(m) ==
    [m EXCEPT
        !.colonyBaseline =
            [tempMean |-> Lit(35, 1), tempStdDev |-> Lit(2, 1),
             humidityMean |-> Lit(60, 1), humidityStdDev |-> Lit(5, 1),
             pressureMean |-> Lit(101325, 100), pressureStdDev |-> Lit(5, 1),
             weightMean |-> 0, weightStdDev |-> Lit(1, 1),
             weightDailyDelta |-> Lit(2, 10),
             audioEnergy |-> [i \in Bands |->
                 CASE i = 0 -> THRESH_B1 [] i = 1 -> THRESH_B2
                   [] i = 2 -> THRESH_B3 [] OTHER -> THRESH_B4],
             audioStdDev |-> [i \in Bands |-> Lit(1, 10)]],
        !.audioStats = [i \in Bands |-> reset(@[i])],
        !.tempStats = reset(@), !.humidityStats = reset(@),
        !.pressureStats = reset(@), !.weightStats = reset(@),
        !.lightStats = reset(@), !.motionStats = reset(@),
        !.learningSampleCount = 0,
        !.dailyPatterns = [h \in HourRange |-> [s \in SeasonRange |->
            [activityLevel |-> Lit(5, 10), tempOffset |-> 0,
             humidityOffset |-> 0, sampleCount |-> 0]]],
        !.baselineEstablished = FALSE]

getSeason_DecemberIsFall(month) ==
    IF month = 1 \/ month = 2 THEN 0
    ELSE IF month >= 3 /\ month <= 5 THEN 1
    ELSE IF month >= 6 /\ month <= 8 THEN 2
    ELSE 3

getSeason(month) ==
    IF month = 12 \/ month = 1 \/ month = 2 THEN 0
    ELSE IF month >= 3 /\ month <= 5 THEN 1
    ELSE IF month >= 6 /\ month <= 8 THEN 2
    ELSE 3

\* line 275: the adaptation rate of a cell that holds sampleCount samples
patternAdaptRate(sampleCount) ==
    min(Lit(5, 10), FDiv(Lit(5, 1), FAdd(IntToFloat(sampleCount), Lit(10, 1))))

updateDailyPattern(m, hour, season, activity, temp, humidity) ==
    LET pattern == m.dailyPatterns[hour][season]
        adaptRate == patternAdaptRate(pattern.sampleCount)
        keep == FSub(Lit(1, 1), adaptRate)
        new == [activityLevel |->
                    FAdd(FMul(keep, pattern.activityLevel),
                         FMul(adaptRate, activity)),
                tempOffset |->
                    FAdd(FMul(keep, pattern.tempOffset),
                         FMul(adaptRate, FSub(temp, m.colonyBaseline.tempMean))),
                humidityOffset |->
                    FAdd(FMul(keep, pattern.humidityOffset),
                         FMul(adaptRate,
                              FSub(humidity, m.colonyBaseline.humidityMean))),
                sampleCount |-> (pattern.sampleCount + 1) % 65536]
    IN  [m EXCEPT !.dailyPatterns[hour][season] = new]

updateBaseline_SkipsWeight(m) ==
    [m EXCEPT !.colonyBaseline =
        [@ EXCEPT
            !.tempMean = mean(m.tempStats),
            !.tempStdDev = standardDeviation(m.tempStats),
            !.humidityMean = mean(m.humidityStats),
            !.humidityStdDev = standardDeviation(m.humidityStats),
            !.pressureMean = mean(m.pressureStats),
            !.pressureStdDev = standardDeviation(m.pressureStats),
            !.audioEnergy = [i \in Bands |-> mean(m.audioStats[i])],
            !.audioStdDev = [i \in Bands |-> standardDeviation(m.audioStats[i])]]]

updateBaseline(m) ==
    [m EXCEPT !.colonyBaseline =
        [@ EXCEPT
            !.tempMean = mean(m.tempStats),
            !.tempStdDev = standardDeviation(m.tempStats),
            !.humidityMean = mean(m.humidityStats),
            !.humidityStdDev = standardDeviation(m.humidityStats),
            !.pressureMean = mean(m.pressureStats),
            !.pressureStdDev = standardDeviation(m.pressureStats),
            !.weightMean = mean(m.weightStats),
            !.weightStdDev = standardDeviation(m.weightStats),
            !.audioEnergy = [i \in Bands |-> mean(m.audioStats[i])],
            !.audioStdDev = [i \in Bands |-> standardDeviation(m.audioStats[i])]]]

\* (1 - k) * old + k * new
Blend(k, old, new) == FAdd(FMul(FSub(Lit(1, 1), k), old), FMul(k, new))

updateBaselineAdaptive(m) ==
    LET adaptRate == LEARNING_ADAPTATION_RATE
        b == m.colonyBaseline
    IN  [m EXCEPT
            !.colonyBaseline =
                [b EXCEPT
                    !.tempMean = Blend(adaptRate, b.tempMean, mean(m.tempStats)),
                    !.tempStdDev = Blend(adaptRate, b.tempStdDev,
                                         standardDeviation(m.tempStats)),
                    !.humidityMean = Blend(adaptRate, b.humidityMean,
                                           mean(m.humidityStats)),
                    !.humidityStdDev = Blend(adaptRate, b.humidityStdDev,
                                             standardDeviation(m.humidityStats)),
                    !.pressureMean = Blend(adaptRate, b.pressureMean,
                                           mean(m.pressureStats)),
                    !.weightMean = Blend(FDiv(adaptRate, Lit(2, 1)), b.weightMean,
                                         mean(m.weightStats)),
                    !.audioEnergy = [i \in Bands |->
                        Blend(FMul(adaptRate, Lit(2, 1)), b.audioEnergy[i],
                              mean(m.audioStats[i]))],
                    !.audioStdDev = [i \in Bands |->
                        Blend(adaptRate, b.audioStdDev[i],
                              standardDeviation(m.audioStats[i]))]],
            !.tempStats = reset(@),
            !.humidityStats = reset(@),
            !.pressureStats = reset(@),
            !.audioStats = [i \in Bands |-> reset(@[i])],
            !.weightStats = partialReset(@, Lit(8, 10))]

---------------------------------------------------------------------------
(* Persistence.  LEARN.DAT is a sequence of chunks, one per write() call.  *)
(* SD.open(name, FILE_WRITE) creates the file if needed and positions at   *)
(* its end (the mode data_logging.cpp relies on to append log lines), so   *)
(* a save appends its four chunks.  The card is "ok", "readonly" (opening  *)
(* for writing fails), "faulty" (every open fails) or "absent" (SD.begin   *)
(* failed, sdCardAvailable is false).  LEARN.JSN, the JSON mirror written  *)
(* by saveJsonParameters, is never read back and is not modelled.          *)

Cards == {"ok", "readonly", "faulty", "absent"}

NoFile == [exists |-> FALSE, data |-> << >>]

Persisted(m) ==
    [baseline |-> m.colonyBaseline, patterns |-> m.dailyPatterns,
     count |-> m.learningSampleCount, season |-> m.currentSeason]

\* the four write() calls of saveLearnedParameters
Record(m) ==
    << [kind |-> "baseline", val |-> m.colonyBaseline],
       [kind |-> "patterns", val |-> m.dailyPatterns],
       [kind |-> "count", val |-> m.learningSampleCount],
       [kind |-> "season", val |-> m.currentSeason] >>

OpenForWrite(m) == m.card = "ok"
OpenForRead(m) == m.card \in {"ok", "readonly"}

saveLearnedParameters_FailureLosesCount(m) ==
    IF ~m.sdCardAvailable
    THEN [ret |-> FALSE, m |-> [m EXCEPT !.learningSampleCount = 0]]
    ELSE IF OpenForWrite(m)
    THEN [ret |-> TRUE,
          m |-> [m EXCEPT !.learnFile =
                    [exists |-> TRUE, data |-> @.data \o Record(m)]]]
    ELSE [ret |-> FALSE, m |-> [m EXCEPT !.learningSampleCount = 0]]

saveLearnedParameters(m) ==
    IF ~m.sdCardAvailable THEN [ret |-> FALSE, m |-> m]
    ELSE IF OpenForWrite(m)
    THEN [ret |-> TRUE,
          m |-> [m EXCEPT !.learnFile =
                    [exists |-> TRUE, data |-> @.data \o Record(m)]]]
    ELSE [ret |-> FALSE, m |-> m]

\* dataFile.read(buffer, size) at chunk position i: the bytes of the chunk
\* found there; past the end of the file nothing is read and the buffer
\* keeps its content; a chunk of another kind at that position (the file
\* holds a record cut short by a power failure, with later saves appended)
\* gives bytes that are not a value of this kind: garbage
ReadChunk(data, i, kind, buffer, garbage) ==
    IF Len(data) < i THEN buffer
    ELSE IF data[i].kind = kind THEN data[i].val
    ELSE garbage

loadLearnedParameters(m, g) ==
    IF ~m.sdCardAvailable THEN [ret |-> FALSE, m |-> m]
    ELSE IF ~m.learnFile.exists THEN [ret |-> FALSE, m |-> m]
    ELSE IF OpenForRead(m)
    THEN LET d == m.learnFile.data
             b == ReadChunk(d, 1, "baseline", m.colonyBaseline, g.baseline)
         IN  [ret |-> TRUE,
              m |-> [m EXCEPT
                !.colonyBaseline = b,
                !.dailyPatterns =
                    ReadChunk(d, 2, "patterns", @, g.patterns),
                !.learningSampleCount = ReadChunk(d, 3, "count", @, g.count),
                !.currentSeason = ReadChunk(d, 4, "season", @, g.season),
                !.tempStats = setStats(@, b.tempMean, b.tempStdDev),
                !.humidityStats = setStats(@, b.humidityMean, b.humidityStdDev),
                !.pressureStats = setStats(@, b.pressureMean, b.pressureStdDev),
                !.weightStats = setStats(@, b.weightMean, b.weightStdDev),
                !.audioStats = [i \in Bands |->
                    setStats(@[i], b.audioEnergy[i], b.audioStdDev[i])]]]
    ELSE [ret |-> FALSE, m |-> m]

\* setupLearning(), after setupDataLogging has set sdCardAvailable from
\* SD.begin (data_logging.cpp 27).  month = 0: the RTC is not running.
setupLearning(m, g, month) ==
    LET m0 == [m EXCEPT !.sdCardAvailable = (m.card # "absent")]
        r == loadLearnedParameters(m0, g)
        m1 == IF r.ret THEN [r.m EXCEPT !.baselineEstablished = TRUE]
              ELSE resetLearningSystem(r.m)
    IN  [m1 EXCEPT !.currentSeason = IF month # 0 THEN getSeason(month) ELSE 0]

---------------------------------------------------------------------------
(* updateLearningModel                                                     *)

establishBaseline_StrictlyMore(m) ==
    IF m.learningSampleCount > LEARNING_SAMPLES_MIN /\ ~m.baselineEstablished
    THEN saveLearnedParameters(
            [updateBaseline(m) EXCEPT !.baselineEstablished = TRUE]).m
    ELSE m

\* lines 155-161
establishBaseline(m) ==
    IF m.learningSampleCount >= LEARNING_SAMPLES_MIN /\ ~m.baselineEstablished
    THEN saveLearnedParameters(
            [updateBaseline(m) EXCEPT !.baselineEstablished = TRUE]).m
    ELSE m

\* lines 163-167
periodicAdaptation(m) ==
    IF m.baselineEstablished
       /\ m.learningSampleCount % LEARNING_UPDATE_INTERVAL = 0
    THEN saveLearnedParameters(updateBaselineAdaptive(m)).m
    ELSE m

periodicSave_OnlyWhenEstablished(m) ==
    IF m.baselineEstablished
       /\ m.learningSampleCount % LEARNING_SAVE_INTERVAL = 0
    THEN saveLearnedParameters(m).m
    ELSE m

\* lines 169-172
periodicSave(m) ==
    IF m.learningSampleCount % LEARNING_SAVE_INTERVAL = 0
    THEN saveLearnedParameters(m).m
    ELSE m

\* s: envData, audioEnergy, motionData (accel), lightData.lightLevel,
\* weight, timestamp (hour, month)
\* lines 136-138
motionMagnitude(s) ==
    sqrt(FAdd(FAdd(FMul(s.accelX, s.accelX), FMul(s.accelY, s.accelY)),
              FMul(s.accelZ, s.accelZ)))

\* lines 122-142: the counter and the running statistics take the reading in
collectSample(m, s) ==
    [m EXCEPT
        !.learningSampleCount = (@ + 1) % 65536,
        !.tempStats = addSample(@, s.temperature),
        !.humidityStats = addSample(@, s.humidity),
        !.pressureStats = addSample(@, s.pressure),
        !.weightStats = addSample(@, s.weight),
        !.audioStats = [i \in Bands |-> addSample(@[i], s.audioEnergy[i])],
        !.motionStats = addSample(@, motionMagnitude(s)),
        !.lightStats = addSample(@, IntToFloat(s.lightLevel))]

updateLearningModel(m, s) ==
    LET motionMag == motionMagnitude(s)
        m1 == collectSample(m, s)
        activity == FAdd(FMul(FDiv(s.audioEnergy[0],
                                   m1.colonyBaseline.audioEnergy[0]),
                              Lit(8, 10)),
                         FMul(FDiv(motionMag, mean(m1.motionStats)),
                              Lit(2, 10)))
        m2 == updateDailyPattern(m1, s.hour, getSeason(s.month), activity,
                                 s.temperature, s.humidity)
    IN  periodicSave(periodicAdaptation(establishBaseline(m2)))

isBaselineEstablished(m) == m.baselineEstablished

getLearningProgress_IgnoresEstablished(m) ==
    LET p == (m.learningSampleCount * 100) \div LEARNING_SAMPLES_MIN
    IN  IF 99 < p THEN 99 ELSE p

getLearningProgress(m) ==
    IF m.baselineEstablished THEN 100
    ELSE LET p == (m.learningSampleCount * 100) \div LEARNING_SAMPLES_MIN
         IN  IF 99 < p THEN 99 ELSE p

---------------------------------------------------------------------------
(* Anomaly detection and adapted thresholds                                *)

\* the divisors of the z-scores (lines 312, 325, 337, 361)
tempDivisor(m) == m.colonyBaseline.tempStdDev
humidityDivisor(m) == m.colonyBaseline.humidityStdDev
audioDivisor(m, i) == max(Lit(1, 100), m.colonyBaseline.audioStdDev[i])
weightDivisor(m) == m.colonyBaseline.weightStdDev

isTemperatureAnomaly_NotStrict(m, temperature, hour) ==
    LET expectedTemp == FAdd(m.colonyBaseline.tempMean,
                             m.dailyPatterns[hour][m.currentSeason].tempOffset)
        zScore == FDiv(FSub(temperature, expectedTemp),
                       m.colonyBaseline.tempStdDev)
    IN  ~FLess(abs(zScore), TEMP_ANOMALY_THRESHOLD)

isTemperatureAnomaly(m, temperature, hour) ==
    LET expectedTemp == FAdd(m.colonyBaseline.tempMean,
                             m.dailyPatterns[hour][m.currentSeason].tempOffset)
        zScore == FDiv(FSub(temperature, expectedTemp), tempDivisor(m))
    IN  FGreater(abs(zScore), TEMP_ANOMALY_THRESHOLD)

isHumidityAnomaly(m, humidity, hour) ==
    LET expectedHumidity ==
            FAdd(m.colonyBaseline.humidityMean,
                 m.dailyPatterns[hour][m.currentSeason].humidityOffset)
        zScore == FDiv(FSub(humidity, expectedHumidity), humidityDivisor(m))
    IN  FGreater(abs(zScore), HUMIDITY_ANOMALY_THRESHOLD)

AudioBandExceeds_OneThreshold(m, audioLevels, i) ==
    LET zScore == FDiv(FSub(audioLevels[i], m.colonyBaseline.audioEnergy[i]),
                       max(Lit(1, 100), m.colonyBaseline.audioStdDev[i]))
    IN  FGreater(abs(zScore), Lit(3, 1))

\* one iteration of the loop of isAudioAnomaly: band i exceeds its threshold
AudioBandExceeds(m, audioLevels, i) ==
    LET zScore == FDiv(FSub(audioLevels[i], m.colonyBaseline.audioEnergy[i]),
                       audioDivisor(m, i))
        threshold == IF i = 0 THEN Lit(3, 1) ELSE Lit(25, 10)
    IN  FGreater(abs(zScore), threshold)

RECURSIVE AudioLoop(_, _, _)
AudioLoop(m, audioLevels, i) ==
    IF i >= NUM_AUDIO_BANDS THEN FALSE
    ELSE IF AudioBandExceeds(m, audioLevels, i) THEN TRUE
    ELSE AudioLoop(m, audioLevels, i + 1)

isAudioAnomaly(m, audioLevels) == AudioLoop(m, audioLevels, 0)

isWeightAnomaly(m, weight, previousWeight) ==
    LET change == FSub(weight, previousWeight)
        zScore == FDiv(FSub(weight, m.colonyBaseline.weightMean),
                       weightDivisor(m))
    IN  IF FGreater(abs(change),
                    FMul(WEIGHT_CHANGE_THRESHOLD, m.colonyBaseline.weightStdDev))
        THEN TRUE
        ELSE FGreater(abs(zScore), WEIGHT_ANOMALY_THRESHOLD)

getAdaptedTempThresholds(m, hour) ==
    LET seasonalOffset == m.dailyPatterns[hour][m.currentSeason].tempOffset
        shift == FSub(m.colonyBaseline.tempMean, Lit(35, 1))
    IN  [low |-> max(MIN_SAFE_TEMP,
                     FSub(FAdd(FAdd(TEMP_ALERT_LOW, shift), seasonalOffset),
                          m.colonyBaseline.tempStdDev)),
         high |-> min(MAX_SAFE_TEMP,
                      FAdd(FAdd(FAdd(TEMP_ALERT_HIGH, shift), seasonalOffset),
                           m.colonyBaseline.tempStdDev))]

getAdaptedHumidityThresholds(m, hour) ==
    LET seasonalOffset == m.dailyPatterns[hour][m.currentSeason].humidityOffset
    IN  [low |-> max(MIN_SAFE_HUMIDITY,
                     FSub(FAdd(HUM_ALERT_LOW, seasonalOffset),
                          m.colonyBaseline.humidityStdDev)),
         high |-> min(MAX_SAFE_HUMIDITY,
                      FAdd(FAdd(HUM_ALERT_HIGH, seasonalOffset),
                           m.colonyBaseline.humidityStdDev))]

getAdaptedAudioThresholds(m) ==
    [i \in Bands |->
        max(MIN_AUDIO_THRESHOLD,
            FMul(m.colonyBaseline.audioEnergy[i],
                 CASE i = 0 -> Lit(7, 10) [] i = 1 -> Lit(15, 10)
                   [] i = 2 -> Lit(15, 10) [] OTHER -> Lit(18, 10)))]

---------------------------------------------------------------------------
(* config.cpp: configuration overrides read from the card at start-up,     *)
(* and the threshold getters the monitoring loop calls                     *)

ConfigKeys == {"ENABLE_LEARNING", "TEMP_ALERT_LOW", "TEMP_ALERT_HIGH",
               "HUM_ALERT_LOW", "HUM_ALERT_HIGH",
               "THRESH_B1", "THRESH_B2", "THRESH_B3", "THRESH_B4"}

\* getConfigValueStr returns NULL: the key has no override
NoValue == [digits |-> 0, scale |-> 0]

\* the text of a decimal numeral: its digits (sign included) and the power
\* of ten its fraction divides them by; "32.5" is Text(325, 10)
Text(digits, scale) == [digits |-> digits, scale |-> scale]

NoOverrides == [k \in ConfigKeys |-> NoValue]

getConfigValueStr(c, key) == c[key]

\* atoi: the integer part of the numeral
atoi(str) ==
    IF str.digits >= 0 THEN str.digits \div str.scale
    ELSE -((-str.digits) \div str.scale)

\* atof
atof(str) == Lit(str.digits, str.scale)

getConfigValueInt(c, key, defaultValue) ==
    IF getConfigValueStr(c, key) = NoValue THEN defaultValue
    ELSE atoi(getConfigValueStr(c, key))

getConfigValueFloat(c, key, defaultValue) ==
    IF getConfigValueStr(c, key) = NoValue THEN defaultValue
    ELSE atof(getConfigValueStr(c, key))

isLearningEnabled(c) == getConfigValueInt(c, "ENABLE_LEARNING", ENABLE_LEARNING) # 0

getTemperatureThresholds_AdaptsWhileCollecting(m, c, hour) ==
    IF isLearningEnabled(c) THEN getAdaptedTempThresholds(m, hour)
    ELSE [low |-> getConfigValueFloat(c, "TEMP_ALERT_LOW", TEMP_ALERT_LOW),
          high |-> getConfigValueFloat(c, "TEMP_ALERT_HIGH", TEMP_ALERT_HIGH)]

\* hour: now.hour() of the RTC
getTemperatureThresholds(m, c, hour) ==
    IF isLearningEnabled(c) /\ isBaselineEstablished(m)
    THEN getAdaptedTempThresholds(m, hour)
    ELSE [low |-> getConfigValueFloat(c, "TEMP_ALERT_LOW", TEMP_ALERT_LOW),
          high |-> getConfigValueFloat(c, "TEMP_ALERT_HIGH", TEMP_ALERT_HIGH)]

getHumidityThresholds(m, c, hour) ==
    IF isLearningEnabled(c) /\ isBaselineEstablished(m)
    THEN getAdaptedHumidityThresholds(m, hour)
    ELSE [low |-> getConfigValueFloat(c, "HUM_ALERT_LOW", HUM_ALERT_LOW),
          high |-> getConfigValueFloat(c, "HUM_ALERT_HIGH", HUM_ALERT_HIGH)]

getAudioThresholds(m, c) ==
    IF isLearningEnabled(c) /\ isBaselineEstablished(m)
    THEN getAdaptedAudioThresholds(m)
    ELSE [i \in Bands |->
            CASE i = 0 -> getConfigValueFloat(c, "THRESH_B1", THRESH_B1)
              [] i = 1 -> getConfigValueFloat(c, "THRESH_B2", THRESH_B2)
              [] i = 2 -> getConfigValueFloat(c, "THRESH_B3", THRESH_B3)
              [] OTHER -> getConfigValueFloat(c, "THRESH_B4", THRESH_B4)]

\* the contents CONFIG.JSON / CONFIG.TXT may have: nothing; learning
\* switched off; thresholds overridden
Configs ==
    { NoOverrides,
      [NoOverrides EXCEPT !["ENABLE_LEARNING"] = Text(0, 1)],
      [NoOverrides EXCEPT !["ENABLE_LEARNING"] = Text(1, 1),
                          !["TEMP_ALERT_LOW"] = Text(325, 10),
                          !["HUM_ALERT_HIGH"] = Text(75, 1),
                          !["THRESH_B1"] = Text(55, 100)] }

---------------------------------------------------------------------------
(* The state as a memory record, and back                                  *)

Mem ==
    [colonyBaseline |-> colonyBaseline,
     baselineEstablished |-> baselineEstablished,
     learningSampleCount |-> learningSampleCount,
     currentSeason |-> currentSeason,
     tempStats |-> tempStats, humidityStats |-> humidityStats,
     pressureStats |-> pressureStats, weightStats |-> weightStats,
     audioStats |-> audioStats,
     lightStats |-> lightStats, motionStats |-> motionStats,
     dailyPatterns |-> dailyPatterns,
     sdCardAvailable |-> sdCardAvailable,
     card |-> card,
     learnFile |-> learnFile]

Holds(m) ==
    /\ colonyBaseline = m.colonyBaseline
    /\ baselineEstablished = m.baselineEstablished
    /\ learningSampleCount = m.learningSampleCount
    /\ currentSeason = m.currentSeason
    /\ tempStats = m.tempStats
    /\ humidityStats = m.humidityStats
    /\ pressureStats = m.pressureStats
    /\ weightStats = m.weightStats
    /\ audioStats = m.audioStats
    /\ lightStats = m.lightStats
    /\ motionStats = m.motionStats
    /\ dailyPatterns = m.dailyPatterns
    /\ sdCardAvailable = m.sdCardAvailable
    /\ card = m.card
    /\ learnFile = m.learnFile

Install(m) ==
    /\ colonyBaseline' = m.colonyBaseline
    /\ baselineEstablished' = m.baselineEstablished
    /\ learningSampleCount' = m.learningSampleCount
    /\ currentSeason' = m.currentSeason
    /\ tempStats' = m.tempStats
    /\ humidityStats' = m.humidityStats
    /\ pressureStats' = m.pressureStats
    /\ weightStats' = m.weightStats
    /\ audioStats' = m.audioStats
    /\ lightStats' = m.lightStats
    /\ motionStats' = m.motionStats
    /\ dailyPatterns' = m.dailyPatterns
    /\ sdCardAvailable' = m.sdCardAvailable
    /\ card' = m.card
    /\ learnFile' = m.learnFile

memVars == << colonyBaseline, baselineEstablished, learningSampleCount,
              currentSeason, tempStats, humidityStats, pressureStats,
              weightStats, audioStats, lightStats, motionStats,
              dailyPatterns, sdCardAvailable, card, learnFile >>

---------------------------------------------------------------------------
(* Inputs                                                                  *)

\* a quiet summer morning in a healthy hive
Normal ==
    [temperature |-> Lit(35, 1), humidity |-> Lit(60, 1),
     pressure |-> Lit(101325, 100), weight |-> Lit(20, 1),
     audioEnergy |-> [i \in Bands |->
         CASE i = 0 -> Lit(6, 10) [] i = 1 -> Lit(4, 10)
           [] i = 2 -> Lit(3, 10) [] OTHER -> Lit(2, 10)],
     accelX |-> 0, accelY |-> 0, accelZ |-> Lit(1, 1),
     lightLevel |-> 0, hour |-> 10, month |-> 7]

\* an overheated, dry, loud hive on a tilted stand, lid open, in the afternoon
Hot ==
    [temperature |-> Lit(50, 1), humidity |-> Lit(10, 1),
     pressure |-> Lit(1000, 1), weight |-> Lit(21, 1),
     audioEnergy |-> [i \in Bands |->
         CASE i = 0 -> Lit(9, 10) [] i = 1 -> Lit(4, 10)
           [] i = 2 -> Lit(6, 10) [] OTHER -> Lit(2, 10)],
     accelX |-> Lit(6, 10), accelY |-> 0, accelZ |-> Lit(8, 10),
     lightLevel |-> 30, hour |-> 14, month |-> 7]

\* the hive over the calls: steady, steadily hot, or going back and forth
Regimes == { << Normal >>, << Hot >>, << Normal, Hot >> }

\* the readings of the n-th call (n = 0, 1, ...) under a regime
Reading(regime, n) == regime[(n % Len(regime)) + 1]

\* months the RTC may show at start-up; 0: the RTC is not running
Months == {0, 1, 7}

\* what a read that is not aligned with a chunk of its kind may deliver
Garbage ==
    {[patterns |-> [h \in HourRange |-> [s \in SeasonRange |->
          [activityLevel |-> Lit(3, 1), tempOffset |-> Lit(-20, 1),
           humidityOffset |-> FNaN, sampleCount |-> 65535]]],
      baseline |-> ZeroBaseline, count |-> 65534, season |-> 5],
     [patterns |-> [h \in HourRange |-> [s \in SeasonRange |-> ZeroPattern]],
      baseline |-> ZeroBaseline, count |-> 49, season |-> 0]}

\* the file holds a chunk at a position where a read expects another kind
Misaligned(file) ==
    \E i \in 1 .. 4 :
        /\ i <= Len(file.data)
        /\ file.data[i].kind # Record(ZeroMem("ok", NoFile))[i].kind

GarbageFor(file) ==
    IF Misaligned(file) THEN Garbage
    ELSE {CHOOSE g \in Garbage : g.count = 49}

---------------------------------------------------------------------------
(* SpecStats: one RunningStats (tempStats) driven through its own methods  *)

MaxLen == 4          \* addSample calls
MaxSpecial == 2      \* reset, partialReset and setStats calls

StatValues == {Lit(-1, 1), Lit(1, 2), Lit(4, 1)}
KeepRatios == {Lit(8, 10), Lit(1, 2), Lit(1, 1)}
StatMeans == {Lit(35, 1), Lit(-3, 1)}
StatStdDevs == {0, Lit(1, 10), Lit(2, 1)}

InitStats ==
    /\ Holds(ZeroMem("absent", NoFile))
    /\ phase = "stats"
    /\ config = NoOverrides
    /\ calls = 0
    /\ env = << Normal >>
    /\ odd = 0
    /\ restarts = 0
    /\ cuts = 0
    /\ samples = << >>
    /\ fresh = TRUE
    /\ wasEstablished = FALSE
    /\ last = [op |-> "init"]

statsFrame == << colonyBaseline, baselineEstablished, learningSampleCount,
                 currentSeason, humidityStats, pressureStats, weightStats,
                 audioStats, lightStats, motionStats, dailyPatterns,
                 sdCardAvailable, card, learnFile, config, phase, calls, env,
                 restarts, cuts, wasEstablished >>

StatsAddSample ==
    /\ Len(samples) < MaxLen
    /\ \E v \in StatValues :
        /\ tempStats' = addSample(tempStats, v)
        /\ samples' = Append(samples, v)
    /\ last' = [op |-> "addSample"]
    /\ UNCHANGED << statsFrame, odd, fresh >>

StatsReset ==
    /\ odd < MaxSpecial
    /\ tempStats' = reset(tempStats)
    /\ samples' = << >>
    /\ fresh' = TRUE
    /\ odd' = odd + 1
    /\ last' = [op |-> "reset"]
    /\ UNCHANGED statsFrame

StatsPartialReset ==
    /\ odd < MaxSpecial
    /\ \E k \in KeepRatios :
        /\ tempStats' = partialReset(tempStats, k)
        /\ last' = [op |-> "partialReset", keepRatio |-> k,
                    before |-> tempStats]
    /\ fresh' = FALSE
    /\ odd' = odd + 1
    /\ UNCHANGED << statsFrame, samples >>

StatsSetStats ==
    /\ odd < MaxSpecial
    /\ \E mn \in StatMeans, sd \in StatStdDevs :
        /\ tempStats' = setStats(tempStats, mn, sd)
        /\ last' = [op |-> "setStats", m |-> mn, stdDev |-> sd,
                    before |-> tempStats]
    /\ fresh' = FALSE
    /\ odd' = odd + 1
    /\ UNCHANGED << statsFrame, samples >>

NextStats ==
    \/ StatsAddSample
    \/ StatsReset
    \/ StatsPartialReset
    \/ StatsSetStats

SpecStats == InitStats /\ [][NextStats]_vars

RECURSIVE SumSeq(_)
SumSeq(s) == IF s = << >> THEN 0 ELSE s[1] + SumSeq(Tail(s))

RECURSIVE SumSquares(_)
SumSquares(s) == IF s = << >> THEN 0 ELSE s[1] * s[1] + SumSquares(Tail(s))

\* C5 as the specification states it: right after partialReset(keepRatio),
\* mean() and variance() return what they returned right before it
C5_PartialResetKeepsMeanAndVariance ==
    last.op = "partialReset" =>
        /\ mean(tempStats) = mean(last.before)
        /\ variance(tempStats) = variance(last.before)

\* C6: a RunningStats fed n samples since its reset has count() = n, mean()
\* their arithmetic mean, variance() their Bessel-corrected sample variance
\* (0 for n <= 1): n * mean = sum, n * (n-1) * variance = n * sum of
\* squares - (sum)^2, in units of 1/Scale and 1/Scale^2
C6_WelfordIsSampleMeanAndVariance ==
    fresh =>
        LET n == Len(samples) IN
        /\ count(tempStats) = n
        /\ n * mean(tempStats) = SumSeq(samples)
        /\ n <= 1 => variance(tempStats) = 0
        /\ n > 1 => n * (n - 1) * variance(tempStats) * Scale
                      = n * SumSquares(samples) - SumSeq(samples) * SumSeq(samples)

C6_Witness ==
    /\ fresh
    /\ Len(samples) = 3
    /\ samples[1] # samples[2]
    /\ variance(tempStats) > 0

\* C7: right after setStats(m, s) with s >= 0, mean() = m,
\* standardDeviation() = s, variance() = s * s and count() = 30, whatever
\* the estimator held before
C7_SetStatsReadsBack ==
    last.op = "setStats" =>
        /\ mean(tempStats) = last.m
        /\ standardDeviation(tempStats) = last.stdDev
        /\ variance(tempStats) = FMul(last.stdDev, last.stdDev)
        /\ count(tempStats) = 30

C7_Witness ==
    /\ last.op = "setStats"
    /\ last.stdDev > 0
    /\ count(last.before) \notin {0, 30}
    /\ mean(last.before) # last.m
    /\ mean(tempStats) = last.m

---------------------------------------------------------------------------
(* SpecDetect: the detectors and threshold queries, asked of engine states *)
(* that updateLearningModel produces from the reset state                  *)

\* updateLearningModel called with the readings seq[lo] .. seq[hi] in turn
\* (halving keeps the evaluation shallow; the singleton set makes the state
\* in the middle a value before the second half starts)
RECURSIVE RunRange(_, _, _, _)
RunRange(m, seq, lo, hi) ==
    IF lo > hi THEN m
    ELSE IF lo = hi THEN updateLearningModel(m, seq[lo])
    ELSE LET mid == (lo + hi) \div 2
         IN  CHOOSE r \in { RunRange(m1, seq, mid + 1, hi) :
                               m1 \in {RunRange(m, seq, lo, mid)} } : TRUE

RunUpdates(m, seq) == RunRange(m, seq, 1, Len(seq))

\* the reset state setupLearning leaves in July on a card without LEARN.DAT
ResetMem == setupLearning(ZeroMem("ok", NoFile), CHOOSE g \in Garbage : TRUE, 7)

HotReadings == 12

\* the readings fed before the queries: none; some hot readings while
\* collecting; a steady hive up to its baseline; a hive alternating between
\* the two readings up to its baseline
DetectRuns ==
    { << >>,
      [i \in 1 .. HotReadings |-> Hot],
      [i \in 1 .. LEARNING_SAMPLES_MIN |-> Normal],
      [i \in 1 .. LEARNING_SAMPLES_MIN |-> IF i % 2 = 1 THEN Normal ELSE Hot] }

DetectHours == {3, 10, 14}

InitDetect ==
    /\ \E run \in DetectRuns : Holds(RunUpdates(ResetMem, run))
    /\ phase = "detect"
    /\ config \in Configs
    /\ calls = 0
    /\ env = << Normal >>
    /\ odd = 0
    /\ restarts = 0
    /\ cuts = 0
    /\ samples = << >>
    /\ fresh = TRUE
    /\ wasEstablished = FALSE
    /\ last = [op |-> "init"]

\* readings at, a tenth beyond and in the middle of a band of k deviations around
\* the expected value, and the two readings of the documented example
ProbesAround(expected, k, stdDev) ==
    LET t == FMul(k, stdDev) IN
    { expected, expected + t, expected - t,
      expected + t + Lit(1, 10), expected - t - Lit(1, 10),
      Lit(41, 1), Lit(4101, 100) }

TemperatureProbes(m, hour) ==
    ProbesAround(FAdd(m.colonyBaseline.tempMean,
                      m.dailyPatterns[hour][m.currentSeason].tempOffset),
                 TEMP_ANOMALY_THRESHOLD, m.colonyBaseline.tempStdDev)

HumidityProbes(m, hour) ==
    ProbesAround(FAdd(m.colonyBaseline.humidityMean,
                      m.dailyPatterns[hour][m.currentSeason].humidityOffset),
                 HUMIDITY_ANOMALY_THRESHOLD, m.colonyBaseline.humidityStdDev)

\* tenths of a (floored) deviation by which a probe moves one band
AudioSteps == {-31, 25, 26, 29, 30, 31}

AudioFloor(m, i) == max(Lit(1, 100), m.colonyBaseline.audioStdDev[i])

AudioShift(m, levels, i, k) ==
    [levels EXCEPT ![i] = @ + (k * AudioFloor(m, i)) \div 10]

\* the learned levels; one band moved; band 0 at 2.9 with band 1 at 2.6
AudioProbes(m) ==
    LET e == m.colonyBaseline.audioEnergy IN
    {e} \cup { AudioShift(m, e, i, k) : i \in Bands, k \in AudioSteps }
        \cup { AudioShift(m, AudioShift(m, e, 0, 29), 1, 26) }

detectFrame == << config, phase, calls, env, odd, restarts, cuts, samples,
                 fresh, wasEstablished >>

DetectTemperature ==
    /\ \E hour \in DetectHours : \E v \in TemperatureProbes(Mem, hour) :
        last' = [op |-> "isTemperatureAnomaly", value |-> v, hour |-> hour,
                 ret |-> isTemperatureAnomaly(Mem, v, hour)]
    /\ UNCHANGED << memVars, detectFrame >>

DetectHumidity ==
    /\ \E hour \in DetectHours : \E v \in HumidityProbes(Mem, hour) :
        last' = [op |-> "isHumidityAnomaly", value |-> v, hour |-> hour,
                 ret |-> isHumidityAnomaly(Mem, v, hour)]
    /\ UNCHANGED << memVars, detectFrame >>

DetectAudio ==
    /\ \E levels \in AudioProbes(Mem) :
        last' = [op |-> "isAudioAnomaly", audioLevels |-> levels,
                 ret |-> isAudioAnomaly(Mem, levels)]
    /\ UNCHANGED << memVars, detectFrame >>

DetectWeight ==
    /\ \E d \in {0, Lit(1, 10), Lit(5, 1)} : \E step \in {0, Lit(1, 1)} :
        LET weight == FAdd(colonyBaseline.weightMean, d)
        IN  last' = [op |-> "isWeightAnomaly", weight |-> weight,
                     previousWeight |-> FSub(weight, step),
                     ret |-> isWeightAnomaly(Mem, weight, FSub(weight, step))]
    /\ UNCHANGED << memVars, detectFrame >>

QueryTempThresholds ==
    /\ \E hour \in DetectHours :
        last' = [op |-> "getAdaptedTempThresholds", hour |-> hour,
                 ret |-> getAdaptedTempThresholds(Mem, hour)]
    /\ UNCHANGED << memVars, detectFrame >>

QueryHumidityThresholds ==
    /\ \E hour \in DetectHours :
        last' = [op |-> "getAdaptedHumidityThresholds", hour |-> hour,
                 ret |-> getAdaptedHumidityThresholds(Mem, hour)]
    /\ UNCHANGED << memVars, detectFrame >>

GetTemperatureThresholds ==
    /\ \E hour \in DetectHours :
        last' = [op |-> "getTemperatureThresholds", hour |-> hour,
                 ret |-> getTemperatureThresholds(Mem, config, hour)]
    /\ UNCHANGED << memVars, detectFrame >>

GetHumidityThresholds ==
    /\ \E hour \in DetectHours :
        last' = [op |-> "getHumidityThresholds", hour |-> hour,
                 ret |-> getHumidityThresholds(Mem, config, hour)]
    /\ UNCHANGED << memVars, detectFrame >>

GetAudioThresholds ==
    /\ last' = [op |-> "getAudioThresholds",
                ret |-> getAudioThresholds(Mem, config)]
    /\ UNCHANGED << memVars, detectFrame >>

NextDetect ==
    \/ GetTemperatureThresholds
    \/ GetHumidityThresholds
    \/ GetAudioThresholds
    \/ DetectTemperature
    \/ DetectHumidity
    \/ DetectAudio
    \/ DetectWeight
    \/ QueryTempThresholds
    \/ QueryHumidityThresholds

SpecDetect == InitDetect /\ [][NextDetect]_vars

\* |v - e| > k * stdDev, in exact arithmetic on the fixed-point numbers
Beyond(v, e, k, stdDev) ==
    (IF v > e THEN v - e ELSE e - v) * Scale > k * stdDev

\* C8: isTemperatureAnomaly(value, hour) is true exactly when value is more
\* than TEMP_ANOMALY_THRESHOLD standard deviations from tempMean plus the
\* offset of the cell of that hour and the current season; isHumidityAnomaly
\* likewise with the humidity mean, offset, deviation and threshold
C8_AnomalyIffBeyondThreshold ==
    /\ last.op = "isTemperatureAnomaly" =>
        (last.ret <=>
            Beyond(last.value,
                   colonyBaseline.tempMean
                     + dailyPatterns[last.hour][currentSeason].tempOffset,
                   TEMP_ANOMALY_THRESHOLD, colonyBaseline.tempStdDev))
    /\ last.op = "isHumidityAnomaly" =>
        (last.ret <=>
            Beyond(last.value,
                   colonyBaseline.humidityMean
                     + dailyPatterns[last.hour][currentSeason].humidityOffset,
                   HUMIDITY_ANOMALY_THRESHOLD, colonyBaseline.humidityStdDev))

C8_Witness ==
    /\ last.op = "isTemperatureAnomaly"
    /\ colonyBaseline.tempMean = Lit(35, 1)
    /\ colonyBaseline.tempStdDev = Lit(2, 1)
    /\ dailyPatterns[last.hour][currentSeason].tempOffset = 0
    /\ last.value = Lit(4101, 100)
    /\ last.ret

\* C9: isAudioAnomaly is true exactly when some band is further from its
\* learned level than its threshold (3.0 for band 0, 2.5 for bands 1-3)
\* times max(0.01, audioStdDev of the band)
C9_AudioAnomalyIffSomeBandBeyond ==
    last.op = "isAudioAnomaly" =>
        (last.ret <=>
            \E i \in Bands :
                Beyond(last.audioLevels[i], colonyBaseline.audioEnergy[i],
                       IF i = 0 THEN Lit(3, 1) ELSE Lit(25, 10),
                       IF colonyBaseline.audioStdDev[i] > Lit(1, 100)
                       THEN colonyBaseline.audioStdDev[i] ELSE Lit(1, 100)))

\* band 0 at 2.9 deviations, band 1 at 2.6: anomalous because of band 1
C9_Witness ==
    /\ last.op = "isAudioAnomaly"
    /\ colonyBaseline.audioStdDev = [i \in Bands |-> Lit(1, 10)]
    /\ last.audioLevels[0] = colonyBaseline.audioEnergy[0] + Lit(29, 100)
    /\ last.audioLevels[1] = colonyBaseline.audioEnergy[1] + Lit(26, 100)
    /\ last.ret

\* C10 as the specification states it: the low and the high threshold of
\* getAdaptedTempThresholds lie within [MIN_SAFE_TEMP, MAX_SAFE_TEMP] and
\* those of getAdaptedHumidityThresholds within
\* [MIN_SAFE_HUMIDITY, MAX_SAFE_HUMIDITY], in every engine state
C10_AdaptedThresholdsWithinSafeBounds ==
    /\ last.op = "getAdaptedTempThresholds" =>
        /\ MIN_SAFE_TEMP <= last.ret.low /\ last.ret.low <= MAX_SAFE_TEMP
        /\ MIN_SAFE_TEMP <= last.ret.high /\ last.ret.high <= MAX_SAFE_TEMP
    /\ last.op = "getAdaptedHumidityThresholds" =>
        /\ MIN_SAFE_HUMIDITY <= last.ret.low
        /\ last.ret.low <= MAX_SAFE_HUMIDITY
        /\ MIN_SAFE_HUMIDITY <= last.ret.high
        /\ last.ret.high <= MAX_SAFE_HUMIDITY

---------------------------------------------------------------------------
(* Spec: the life of the node: boot, setupLearning, one updateLearningModel *)
(* per wake-up with the readings of a steady hive, power cycles, and power  *)
(* failures while a save is writing LEARN.DAT                               *)

MaxCalls == 40       \* updateLearningModel calls
MaxRestarts == 1     \* power cycles
MaxCuts == 1         \* power failures during a save

Init ==
    /\ \E c \in Cards \ {"faulty"} : Holds(ZeroMem(c, NoFile))
    /\ phase = "boot"
    /\ config = NoOverrides
    /\ calls = 0
    /\ env \in Regimes
    /\ odd = 0
    /\ restarts = 0
    /\ cuts = 0
    /\ samples = << >>
    /\ fresh = TRUE
    /\ wasEstablished = FALSE
    /\ last = [op |-> "init"]

\* setup(): setupDataLogging, then setupLearning
SetupLearning ==
    /\ phase = "boot"
    /\ \E month \in Months : \E g \in GarbageFor(learnFile) :
        LET m0 == [Mem EXCEPT !.sdCardAvailable = (card # "absent")]
            r == loadLearnedParameters(m0, g)
        IN  /\ Install(setupLearning(Mem, g, month))
            /\ last' = [op |-> "setupLearning", loadRet |-> r.ret,
                        before |-> m0, loaded |-> r.m]
    /\ phase' = "run"
    /\ wasEstablished' = (wasEstablished \/ baselineEstablished')
    /\ UNCHANGED << config, calls, env, odd, restarts, cuts, samples, fresh >>

Update(bound) ==
    /\ phase = "run"
    /\ calls < bound
    /\ Install(updateLearningModel(Mem, Reading(env, calls)))
    /\ calls' = calls + 1
    /\ last' = [op |-> "updateLearningModel", before |-> Mem,
                 s |-> Reading(env, calls)]
    /\ wasEstablished' = (wasEstablished \/ baselineEstablished')
    /\ UNCHANGED << config, phase, env, odd, restarts, cuts, samples, fresh >>

UpdateLearningModel == Update(MaxCalls)

\* power returns after an outage: statics are zero-initialised again, the
\* file stays; a card that worked may have stopped working
PowerCycle ==
    /\ phase = "run"
    /\ restarts < MaxRestarts
    /\ \E c \in (IF card = "ok" THEN {"ok", "faulty"} ELSE {card}) :
        Install(ZeroMem(c, learnFile))
    /\ phase' = "boot"
    /\ restarts' = restarts + 1
    /\ last' = [op |-> "powerCycle"]
    /\ UNCHANGED << config, calls, env, odd, cuts, samples, fresh,
                    wasEstablished >>

\* power fails inside updateLearningModel while it writes LEARN.DAT: the
\* file keeps what was written before, and some of the chunks of this call
PowerLossInSave ==
    /\ phase = "run"
    /\ calls < MaxCalls
    /\ cuts < MaxCuts
    /\ LET m1 == updateLearningModel(Mem, Reading(env, calls))
           old == Len(learnFile.data)
       IN  /\ Len(m1.learnFile.data) > old
           /\ \E k \in old .. (Len(m1.learnFile.data) - 1) :
                Install(ZeroMem(card,
                    [exists |-> TRUE, data |-> SubSeq(m1.learnFile.data, 1, k)]))
    /\ phase' = "boot"
    /\ calls' = calls + 1
    /\ cuts' = cuts + 1
    /\ last' = [op |-> "powerLoss"]
    /\ UNCHANGED << config, env, odd, restarts, samples, fresh,
                    wasEstablished >>

Next ==
    \/ SetupLearning
    \/ UpdateLearningModel
    \/ PowerCycle
    \/ PowerLossInSave

Spec == Init /\ [][Next]_vars

---------------------------------------------------------------------------
(* SpecLearn: from the reset state, only updateLearningModel               *)

MaxLearnCalls == 151

InitLearn ==
    /\ \E c \in {"ok", "absent"} :
        Holds(setupLearning(ZeroMem(c, NoFile), CHOOSE g \in Garbage : TRUE, 7))
    /\ phase = "run"
    /\ config = NoOverrides
    /\ calls = 0
    /\ env \in Regimes
    /\ odd = 0
    /\ restarts = 0
    /\ cuts = 0
    /\ samples = << >>
    /\ fresh = TRUE
    /\ wasEstablished = FALSE
    /\ last = [op |-> "init"]

LearnUpdate == Update(MaxLearnCalls)

NextLearn == LearnUpdate

SpecLearn == InitLearn /\ [][NextLearn]_vars

\* C1: from the reset state, with updateLearningModel calls only,
\* isBaselineEstablished() is false after each of the first 99 calls and
\* true after the 100th and after every later one
C1_EstablishedExactlyFromSample100 ==
    /\ calls < LEARNING_SAMPLES_MIN => ~isBaselineEstablished(Mem)
    /\ calls >= LEARNING_SAMPLES_MIN => isBaselineEstablished(Mem)

C1_Witness ==
    /\ calls = 100
    /\ learningSampleCount = 100
    /\ isBaselineEstablished(Mem)

\* the most recent record of a file made of complete records only
LastRecord(file) ==
    LET n == Len(file.data)
    IN  [baseline |-> file.data[n - 3].val, patterns |-> file.data[n - 2].val,
         count |-> file.data[n - 1].val, season |-> file.data[n].val]

\* C2 as the specification states it: after successful saves only, the
\* last one taken in state S, loadLearnedParameters into the fresh instance
\* of the next boot returns true and holds the baseline, the 96 cells,
\* learningSampleCount and currentSeason of S
C2_LoadReproducesLastSave ==
    ( /\ last.op = "setupLearning"
      /\ cuts = 0
      /\ card = "ok"
      /\ Len(learnFile.data) >= 4 )
    => /\ last.loadRet
       /\ Persisted(last.loaded) = LastRecord(learnFile)

\* C3 as the specification states it: loadLearnedParameters on a LEARN.DAT
\* shorter than one full record returns false and leaves the baseline, the
\* grid, learningSampleCount, currentSeason and every RunningStats as they
\* were before the call
C3_ShortFileIsRejected ==
    ( /\ last.op = "setupLearning"
      /\ last.before.sdCardAvailable
      /\ learnFile.exists
      /\ OpenForRead(last.before)
      /\ Len(learnFile.data) < 4 )
    => /\ ~last.loadRet
       /\ last.loaded = last.before

\* C4: when loadLearnedParameters returns false at start-up, setupLearning
\* ends with the default baseline, every cell (0.5, 0, 0, 0),
\* learningSampleCount 0, every RunningStats with count 0 and
\* baselineEstablished false
C4_FailedLoadEndsInResetState ==
    (last.op = "setupLearning" /\ ~last.loadRet) =>
        /\ colonyBaseline =
            [tempMean |-> Lit(35, 1), tempStdDev |-> Lit(2, 1),
             humidityMean |-> Lit(60, 1), humidityStdDev |-> Lit(5, 1),
             pressureMean |-> Lit(101325, 100), pressureStdDev |-> Lit(5, 1),
             weightMean |-> 0, weightStdDev |-> Lit(1, 1),
             weightDailyDelta |-> Lit(2, 10),
             audioEnergy |-> [i \in Bands |->
                 CASE i = 0 -> Lit(6, 10) [] i = 1 -> Lit(4, 10)
                   [] i = 2 -> Lit(3, 10) [] OTHER -> Lit(2, 10)],
             audioStdDev |-> [i \in Bands |-> Lit(1, 10)]]
        /\ \A h \in HourRange : \A s \in SeasonRange :
            dailyPatterns[h][s] =
                [activityLevel |-> Lit(1, 2), tempOffset |-> 0,
                 humidityOffset |-> 0, sampleCount |-> 0]
        /\ learningSampleCount = 0
        /\ \A rs \in {tempStats, humidityStats, pressureStats, weightStats,
                      lightStats, motionStats} : count(rs) = 0
        /\ \A i \in Bands : count(audioStats[i]) = 0
        /\ ~baselineEstablished

\* the card stopped working after LEARN.DAT was written: open fails
C4_Witness ==
    /\ last.op = "setupLearning"
    /\ ~last.loadRet
    /\ card = "faulty"
    /\ learnFile.exists
    /\ ~baselineEstablished
    /\ dailyPatterns[0][0].activityLevel = Lit(1, 2)

---------------------------------------------------------------------------
\* C11: while isBaselineEstablished() is false (or learning is disabled),
\* getTemperatureThresholds, getHumidityThresholds and getAudioThresholds
\* return the configured defaults (the override of the key, else the
\* compile-time value), never the adapted values
C11_DefaultsUntilEstablished ==
    ~(isLearningEnabled(config) /\ baselineEstablished) =>
        /\ last.op = "getTemperatureThresholds" =>
            /\ last.ret.low =
                getConfigValueFloat(config, "TEMP_ALERT_LOW", Lit(30, 1))
            /\ last.ret.high =
                getConfigValueFloat(config, "TEMP_ALERT_HIGH", Lit(38, 1))
        /\ last.op = "getHumidityThresholds" =>
            /\ last.ret.low =
                getConfigValueFloat(config, "HUM_ALERT_LOW", Lit(50, 1))
            /\ last.ret.high =
                getConfigValueFloat(config, "HUM_ALERT_HIGH", Lit(70, 1))
        /\ last.op = "getAudioThresholds" =>
            /\ last.ret[0] = getConfigValueFloat(config, "THRESH_B1", Lit(6, 10))
            /\ last.ret[1] = getConfigValueFloat(config, "THRESH_B2", Lit(4, 10))
            /\ last.ret[2] = getConfigValueFloat(config, "THRESH_B3", Lit(3, 10))
            /\ last.ret[3] = getConfigValueFloat(config, "THRESH_B4", Lit(2, 10))

\* learning enabled, still collecting, and the adapted thresholds would differ
C11_Witness ==
    /\ last.op = "getTemperatureThresholds"
    /\ isLearningEnabled(config)
    /\ ~baselineEstablished
    /\ learningSampleCount > 0
    /\ last.ret = [low |-> Lit(325, 10), high |-> Lit(38, 1)]
    /\ getAdaptedTempThresholds(Mem, last.hour) # last.ret

---------------------------------------------------------------------------
(* SpecPattern: updateDailyPattern on one cell, and getSeason              *)

MaxPatternCalls == 3

PatternHour == 10
PatternSeason == 2

\* samples the cell has taken in before: around the documented values and
\* at the end of the range of the 16-bit counter
PatternCounts == {0, 10, 40, 990, 65535}

InitPattern ==
    /\ \E n \in PatternCounts :
        Holds([ResetMem EXCEPT
                 !.dailyPatterns[PatternHour][PatternSeason].sampleCount = n])
    /\ phase = "pattern"
    /\ config = NoOverrides
    /\ calls = 0
    /\ env = << Normal, Hot >>
    /\ odd = 0
    /\ restarts = 0
    /\ cuts = 0
    /\ samples = << >>
    /\ fresh = TRUE
    /\ wasEstablished = FALSE
    /\ last = [op |-> "init"]

PatternUpdate ==
    /\ calls < MaxPatternCalls
    /\ LET s == Reading(env, calls)
           activity == IF calls % 2 = 0 THEN Lit(1, 2) ELSE Lit(1, 1)
       IN  Install(updateDailyPattern(Mem, PatternHour, PatternSeason,
                                      activity, s.temperature, s.humidity))
    /\ calls' = calls + 1
    /\ LET n == dailyPatterns[PatternHour][PatternSeason].sampleCount
       IN  last' = [op |-> "updateDailyPattern", sampleCount |-> n,
                    before |-> Mem, s |-> Reading(env, calls),
                    activity |-> IF calls % 2 = 0 THEN Lit(1, 2) ELSE Lit(1, 1),
                    rate |-> patternAdaptRate(n),
                    hasPrev |-> (last.op = "updateDailyPattern"),
                    prev |-> IF last.op = "updateDailyPattern"
                             THEN last.rate ELSE 0]
    /\ UNCHANGED << config, phase, env, odd, restarts, cuts, samples, fresh,
                    wasEstablished >>

GetSeason ==
    /\ \E month \in 0 .. 255 :
        last' = [op |-> "getSeason", month |-> month, ret |-> getSeason(month)]
    /\ UNCHANGED << memVars, detectFrame >>

NextPattern ==
    \/ PatternUpdate
    \/ GetSeason

SpecPattern == InitPattern /\ [][NextPattern]_vars

\* C12 as the specification states it: the rate each updateDailyPattern
\* call applies to a cell is at most 0.5 and not larger than the rate the
\* previous call applied to that cell, over the whole range of sampleCount;
\* it is 0.5, 0.25, 0.1, 0.005 at sampleCount 0, 10, 40, 990
C12_RateNeverIncreases ==
    last.op = "updateDailyPattern" =>
        /\ last.rate <= Lit(5, 10)
        /\ last.hasPrev => last.rate <= last.prev
        /\ last.sampleCount = 0 => last.rate = Lit(5, 10)
        /\ last.sampleCount = 10 => last.rate = Lit(25, 100)
        /\ last.sampleCount = 40 => last.rate = Lit(1, 10)
        /\ last.sampleCount = 990 => last.rate = Lit(5, 1000)

\* C13: getSeason maps months 12, 1, 2 to 0; 3-5 to 1; 6-8 to 2; 9-11 to 3;
\* and every other value of its uint8 argument to a season in 0..3
C13_SeasonMapping ==
    last.op = "getSeason" =>
        /\ last.ret \in 0 .. 3
        /\ last.month \in {12, 1, 2} => last.ret = 0
        /\ last.month \in {3, 4, 5} => last.ret = 1
        /\ last.month \in {6, 7, 8} => last.ret = 2
        /\ last.month \in {9, 10, 11} => last.ret = 3

C13_Witness ==
    /\ last.op = "getSeason"
    /\ last.month = 255
    /\ last.ret \in SeasonRange
    /\ getSeason(12) = 0

---------------------------------------------------------------------------
(* Claims on the learning run (SpecLearn) and on restarts (Spec)           *)

\* C14: getLearningProgress() is in 0..100, is 100 exactly when the
\* baseline is established, is min(99, learningSampleCount * 100 /
\* LEARNING_SAMPLES_MIN) before that, and from the reset state never
\* decreases from one updateLearningModel call to the next
C14_ProgressBoundedAndMonotone ==
    LET p == getLearningProgress(Mem)
        q == (learningSampleCount * 100) \div LEARNING_SAMPLES_MIN
    IN  /\ p \in 0 .. 100
        /\ (p = 100) <=> baselineEstablished
        /\ ~baselineEstablished => p = (IF q > 99 THEN 99 ELSE q)
        /\ last.op = "updateLearningModel" =>
              p >= getLearningProgress(last.before)

C14_Witness ==
    /\ last.op = "updateLearningModel"
    /\ getLearningProgress(last.before) = 99
    /\ getLearningProgress(Mem) = 100
    /\ learningSampleCount = LEARNING_SAMPLES_MIN

\* C15 as the specification states it: over updateLearningModel calls,
\* saves, loads and restarts through setupLearning, once
\* isBaselineEstablished() has returned true (wasEstablished) it returns
\* true whenever the engine is running
C15_EstablishedIsOneWay ==
    (phase = "run" /\ wasEstablished) => isBaselineEstablished(Mem)

---------------------------------------------------------------------------
(* SpecLong: a hive that has been running for longer than the 16-bit       *)
(* learningSampleCount can count                                           *)

LongPrefix == 65480
MaxLongCalls == 110

InitLong ==
    /\ Holds(ZeroMem("absent", NoFile))
    /\ phase = "boot"
    /\ config = NoOverrides
    /\ calls = 0
    /\ env = << Normal >>
    /\ odd = 0
    /\ restarts = 0
    /\ cuts = 0
    /\ samples = << >>
    /\ fresh = TRUE
    /\ wasEstablished = FALSE
    /\ last = [op |-> "init"]

\* setup(), then LongPrefix updateLearningModel calls in a steady hive;
\* the readings of the calls after those follow one of the regimes
SteadyRun ==
    /\ phase = "boot"
    /\ \E m \in { RunUpdates(setupLearning(Mem, CHOOSE g \in Garbage : TRUE, 7),
                             [i \in 1 .. LongPrefix |-> Normal]) } : Install(m)
    /\ phase' = "run"
    /\ env' \in Regimes
    /\ wasEstablished' = baselineEstablished'
    /\ last' = [op |-> "steadyRun"]
    /\ UNCHANGED << config, calls, odd, restarts, cuts, samples, fresh >>

LongUpdate == Update(MaxLongCalls)

NextLong ==
    \/ SteadyRun
    \/ LongUpdate

SpecLong == InitLong /\ [][NextLong]_vars

\* updateBaselineAdaptive ran in the updateLearningModel call that led to
\* after: it alone leaves tempStats empty (lines 250 and 126)
Adapted(after) ==
    /\ after.baselineEstablished
    /\ count(after.tempStats) = 0

\* C16 as the specification states it: once the baseline is established,
\* updateBaselineAdaptive runs in exactly the updateLearningModel calls
\* that complete another 50 samples since the previous adaptation, also
\* after more calls than learningSampleCount can hold
C16_AdaptationsExactly50Apart ==
    (last.op = "updateLearningModel" /\ last.before.baselineEstablished) =>
        (Adapted(Mem) <=>
            count(last.before.tempStats) + 1 = LEARNING_UPDATE_INTERVAL)

---------------------------------------------------------------------------
(* The periodic adaptation                                                 *)

\* the engine just before the updateBaselineAdaptive of a call that took the
\* reading s in state before (lines 122-161; the baseline and the statistics
\* do not depend on the pattern update of lines 144-153)
PreAdaptation(before, s) == establishBaseline(collectSample(before, s))

\* the field went from old to (1-k) * old + k * epoch; where the epoch value
\* is the old one there is nothing to see and staying put is as good
BlendsToward(k, old, epoch, new) ==
    \/ new = Blend(k, old, epoch)
    \/ epoch = old /\ new = old

\* C17 as the specification states it: a periodic adaptation takes every
\* mean and every stddev of temperature, humidity, pressure, weight and the
\* audio bands to (1-k) * old + k * epoch value, k = r, 2r for the audio
\* means and r/2 for the weight mean, so that no field stays where it was
\* while the epoch value differs
C17_AdaptationBlendsEveryField ==
    (last.op = "updateLearningModel" /\ Adapted(Mem)) =>
        LET pre == PreAdaptation(last.before, last.s)
            old == pre.colonyBaseline
            new == colonyBaseline
            r == LEARNING_ADAPTATION_RATE
        IN  /\ BlendsToward(r, old.tempMean, mean(pre.tempStats), new.tempMean)
            /\ BlendsToward(r, old.tempStdDev,
                            standardDeviation(pre.tempStats), new.tempStdDev)
            /\ BlendsToward(r, old.humidityMean, mean(pre.humidityStats),
                            new.humidityMean)
            /\ BlendsToward(r, old.humidityStdDev,
                            standardDeviation(pre.humidityStats),
                            new.humidityStdDev)
            /\ BlendsToward(r, old.pressureMean, mean(pre.pressureStats),
                            new.pressureMean)
            /\ BlendsToward(r, old.pressureStdDev,
                            standardDeviation(pre.pressureStats),
                            new.pressureStdDev)
            /\ BlendsToward(FDiv(r, Lit(2, 1)), old.weightMean,
                            mean(pre.weightStats), new.weightMean)
            /\ BlendsToward(r, old.weightStdDev,
                            standardDeviation(pre.weightStats),
                            new.weightStdDev)
            /\ \A i \in Bands :
                 /\ BlendsToward(FMul(r, Lit(2, 1)), old.audioEnergy[i],
                                 mean(pre.audioStats[i]), new.audioEnergy[i])
                 /\ BlendsToward(r, old.audioStdDev[i],
                                 standardDeviation(pre.audioStats[i]),
                                 new.audioStdDev[i])

\* C18 as the specification states it: right after a periodic adaptation
\* every RunningStats that updateLearningModel feeds is empty, except
\* weightStats, which keeps its mean and M2 with max(1, floor(0.8 * count))
\* samples
C18_EveryChannelResetAfterAdaptation ==
    (last.op = "updateLearningModel" /\ Adapted(Mem)) =>
        LET pre == PreAdaptation(last.before, last.s)
        IN  /\ tempStats = RunningStats
            /\ humidityStats = RunningStats
            /\ pressureStats = RunningStats
            /\ \A i \in Bands : audioStats[i] = RunningStats
            /\ motionStats = RunningStats
            /\ lightStats = RunningStats
            /\ weightStats =
                 [pre.weightStats EXCEPT
                    !.count_ = IntMax(1, (8 * count(pre.weightStats)) \div 10)]

---------------------------------------------------------------------------
(* Saves during the learning run                                           *)

\* the records the last updateLearningModel call appended to LEARN.DAT: on
\* a working card, one per saveLearnedParameters call it made
SavesInLastCall ==
    (Len(learnFile.data) - Len(last.before.learnFile.data)) \div 4

\* C19: on a working card, an updateLearningModel call saves once if the
\* sample count it reaches is a multiple of LEARNING_SAVE_INTERVAL, before
\* and after the baseline is established, once more if it establishes the
\* baseline and once more if it runs the periodic adaptation, and never
\* otherwise; from the 20th call on the last record saved is less than 20
\* samples old
C19_SaveEvery20AndOnEstablishAndAdapt ==
    (last.op = "updateLearningModel" /\ card = "ok") =>
        /\ SavesInLastCall =
              (IF learningSampleCount % LEARNING_SAVE_INTERVAL = 0
               THEN 1 ELSE 0)
            + (IF ~last.before.baselineEstablished /\ baselineEstablished
               THEN 1 ELSE 0)
            + (IF Adapted(Mem) THEN 1 ELSE 0)
        /\ calls >= LEARNING_SAVE_INTERVAL =>
              /\ Len(learnFile.data) >= 4
              /\ LastRecord(learnFile).count >
                    learningSampleCount - LEARNING_SAVE_INTERVAL

C19_Witness ==
    /\ last.op = "updateLearningModel"
    /\ card = "ok"
    /\ learningSampleCount = LEARNING_SAVE_INTERVAL
    /\ ~baselineEstablished
    /\ SavesInLastCall = 1
    /\ LastRecord(learnFile).count = LEARNING_SAVE_INTERVAL

\* the in-memory state of the engine: everything but the card and the file
Engine(m) ==
    [colonyBaseline |-> m.colonyBaseline,
     dailyPatterns |-> m.dailyPatterns,
     learningSampleCount |-> m.learningSampleCount,
     baselineEstablished |-> m.baselineEstablished,
     currentSeason |-> m.currentSeason,
     tempStats |-> m.tempStats,
     humidityStats |-> m.humidityStats,
     pressureStats |-> m.pressureStats,
     weightStats |-> m.weightStats,
     audioStats |-> m.audioStats,
     motionStats |-> m.motionStats,
     lightStats |-> m.lightStats]

\* the engine m on a card of kind c that holds the file f
OnCard(m, c, f) ==
    [m EXCEPT !.card = c, !.sdCardAvailable = (c # "absent"), !.learnFile = f]

\* C20: whatever the card does (saves succeed, opening the file fails, no
\* card at all) and whatever LEARN.DAT holds, an updateLearningModel call
\* with the same reading from the same in-memory state ends in the same
\* in-memory state; and a saveLearnedParameters call that returns false
\* leaves the in-memory state as it was
C20_SaveOutcomeDoesNotInfluenceLearning ==
    last.op = "updateLearningModel" =>
        \A c \in Cards : \A f \in {NoFile, learnFile} :
            /\ Engine(updateLearningModel(OnCard(last.before, c, f), last.s))
                  = Engine(Mem)
            /\ LET r == saveLearnedParameters(OnCard(Mem, c, f))
               IN  ~r.ret => Engine(r.m) = Engine(Mem)

C20_Witness ==
    /\ last.op = "updateLearningModel"
    /\ card = "absent"
    /\ learningSampleCount = LEARNING_SAMPLES_MIN
    /\ baselineEstablished
    /\ ~learnFile.exists
    /\ ~saveLearnedParameters(Mem).ret
    /\ LET ok == updateLearningModel(OnCard(last.before, "ok", NoFile), last.s)
       IN  /\ Len(ok.learnFile.data) = 12
           /\ Engine(ok) = Engine(Mem)

---------------------------------------------------------------------------
(* The pattern grid                                                        *)

\* the offset a cell holds after a call that blended old toward
\* reading - baselineMean at the rate of a cell of n samples
OffsetToward(n, old, reading, baselineMean) ==
    LET rate == patternAdaptRate(n)
    IN  FAdd(FMul(FSub(Lit(1, 1), rate), old),
             FMul(rate, FSub(reading, baselineMean)))

\* C21 as the specification states it: in an updateLearningModel call that
\* establishes or adapts the baseline, the cell of the call's hour and
\* season is updated after the baseline, so its tempOffset and
\* humidityOffset are blended toward the reading minus the mean the
\* baseline holds at the end of the call
C21_PatternUpdatedAfterBaseline ==
    (last.op = "updateLearningModel" /\ Adapted(Mem)) =>
        LET s == last.s
            old == last.before.dailyPatterns[s.hour][getSeason(s.month)]
            new == dailyPatterns[s.hour][getSeason(s.month)]
        IN  /\ new.tempOffset =
                 OffsetToward(old.sampleCount, old.tempOffset, s.temperature,
                              colonyBaseline.tempMean)
            /\ new.humidityOffset =
                 OffsetToward(old.sampleCount, old.humidityOffset, s.humidity,
                              colonyBaseline.humidityMean)

\* C22 as the specification states it: updateDailyPattern(hour, season,
\* ...) adds exactly 1 to the sampleCount of the cell (hour, season), blends
\* its three values at the rate of the call, and changes nothing else: not
\* the 95 other cells, the baseline, learningSampleCount or
\* baselineEstablished
C22_PatternUpdateTouchesOneCell ==
    last.op = "updateDailyPattern" =>
        LET b == last.before
            old == b.dailyPatterns[PatternHour][PatternSeason]
            new == dailyPatterns[PatternHour][PatternSeason]
        IN  /\ new.sampleCount = old.sampleCount + 1
            /\ new.activityLevel =
                 Blend(last.rate, old.activityLevel, last.activity)
            /\ new.tempOffset =
                 OffsetToward(old.sampleCount, old.tempOffset,
                              last.s.temperature, b.colonyBaseline.tempMean)
            /\ new.humidityOffset =
                 OffsetToward(old.sampleCount, old.humidityOffset,
                              last.s.humidity, b.colonyBaseline.humidityMean)
            /\ \A h \in HourRange : \A sn \in SeasonRange :
                 (h # PatternHour \/ sn # PatternSeason) =>
                    dailyPatterns[h][sn] = b.dailyPatterns[h][sn]
            /\ [Mem EXCEPT !.dailyPatterns = b.dailyPatterns] = b

\* C23 as the specification states it: with non-negative audio energies
\* and accelerations fed through updateLearningModel, the activityLevel of
\* every pattern cell stays between 0.0 and 1.0
C23_ActivityLevelWithinUnitRange ==
    \A h \in HourRange : \A sn \in SeasonRange :
        /\ ~FLess(dailyPatterns[h][sn].activityLevel, 0)
        /\ ~FGreater(dailyPatterns[h][sn].activityLevel, Lit(1, 1))
        /\ dailyPatterns[h][sn].activityLevel # FNaN

---------------------------------------------------------------------------
(* More on the detectors                                                   *)

\* C24 as the specification states it: the divisor of the z-score of each
\* anomaly check is floored at a positive epsilon, also for a baseline
\* learned from identical readings, whose standard deviations are 0
C24_DivisorsFlooredAboveZero ==
    /\ last.op = "isTemperatureAnomaly" => FGreater(tempDivisor(Mem), 0)
    /\ last.op = "isHumidityAnomaly" => FGreater(humidityDivisor(Mem), 0)
    /\ last.op = "isAudioAnomaly" =>
          \A i \in Bands : FGreater(audioDivisor(Mem, i), 0)
    /\ last.op = "isWeightAnomaly" => FGreater(weightDivisor(Mem), 0)

---------------------------------------------------------------------------
(* Restarts                                                                *)

\* C25 as the specification states it: when setupLearning restores a state
\* that was saved before the baseline was established (fewer than
\* LEARNING_SAMPLES_MIN samples, from a file no power failure has cut), the
\* engine is still collecting: isBaselineEstablished() is false
C25_RestoredCollectingStateStaysCollecting ==
    ( /\ last.op = "setupLearning"
      /\ last.loadRet
      /\ cuts = 0
      /\ learningSampleCount < LEARNING_SAMPLES_MIN )
    => ~isBaselineEstablished(Mem)

\* C26 as the specification states it: after two or more successful
\* saves into LEARN.DAT, taken in different states, the load of the next
\* start-up restores the state of the most recent save
C26_LatestSaveWins ==
    ( /\ last.op = "setupLearning"
      /\ last.loadRet
      /\ cuts = 0
      /\ Len(learnFile.data) >= 8
      /\ LastRecord(learnFile) #
            LastRecord([learnFile EXCEPT !.data = SubSeq(@, 1, 4)]) )
    => /\ learningSampleCount = LastRecord(learnFile).count
       /\ colonyBaseline = LastRecord(learnFile).baseline
       /\ dailyPatterns = LastRecord(learnFile).patterns

\* C27 as the specification states it: after every updateLearningModel
\* call, the season row the detectors read (currentSeason) is the row the
\* call has just written, the one of getSeason(month) of its timestamp
C27_DetectorsReadTheSeasonBeingLearned ==
    last.op = "updateLearningModel" =>
        /\ currentSeason = getSeason(last.s.month)
        /\ dailyPatterns[last.s.hour][currentSeason].sampleCount =
              (last.before.dailyPatterns[last.s.hour][currentSeason].sampleCount
                 + 1) % 65536

\* C28 as the specification states it: the pair getAdaptedTempThresholds
\* returns and the pair getAdaptedHumidityThresholds returns have
\* low <= high
C28_LowNeverAboveHigh ==
    last.op \in {"getAdaptedTempThresholds", "getAdaptedHumidityThresholds"}
        => /\ last.ret.low # FNaN
           /\ last.ret.high # FNaN
           /\ last.ret.low <= last.ret.high

---------------------------------------------------------------------------
(* The baseline at establishment, and the weight estimator                 *)

RECURSIVE SumReadings(_, _, _)
\* the sum of Channel(reading) over the first n calls under a regime
SumReadings(Channel(_), regime, n) ==
    IF n = 0 THEN 0
    ELSE Channel(Reading(regime, n - 1)) + SumReadings(Channel, regime, n - 1)

\* the arithmetic mean of a channel over the first LEARNING_SAMPLES_MIN calls
FirstMean(Channel(_)) ==
    RoundDiv(SumReadings(Channel, env, LEARNING_SAMPLES_MIN),
             LEARNING_SAMPLES_MIN)

\* x is y up to the rounding of the arithmetic (a thousandth)
Near(x, y) == x - y <= Lit(1, 1000) /\ y - x <= Lit(1, 1000)

Temperature(s) == s.temperature
Humidity(s) == s.humidity
Pressure(s) == s.pressure
Weight(s) == s.weight

\* C29: at the end of the call that establishes the baseline, the 100th
\* from reset, in which the periodic adaptation runs too, each mean of the
\* baseline is the arithmetic mean of the first LEARNING_SAMPLES_MIN
\* readings of its channel, and the epoch statistics are reset
C29_EstablishedMeansAreSampleMeans ==
    ( /\ last.op = "updateLearningModel"
      /\ ~last.before.baselineEstablished
      /\ baselineEstablished )
    => /\ learningSampleCount = LEARNING_SAMPLES_MIN
       /\ Adapted(Mem)
       /\ Near(colonyBaseline.tempMean, FirstMean(Temperature))
       /\ Near(colonyBaseline.humidityMean, FirstMean(Humidity))
       /\ Near(colonyBaseline.pressureMean, FirstMean(Pressure))
       /\ Near(colonyBaseline.weightMean, FirstMean(Weight))
       /\ \A i \in Bands :
            LET Band(s) == s.audioEnergy[i]
            IN  Near(colonyBaseline.audioEnergy[i], FirstMean(Band))

C29_Witness ==
    /\ last.op = "updateLearningModel"
    /\ ~last.before.baselineEstablished
    /\ baselineEstablished
    /\ calls = LEARNING_SAMPLES_MIN
    /\ env = << Normal, Hot >>
    /\ Near(colonyBaseline.tempMean, Lit(425, 10))
    /\ Near(colonyBaseline.weightMean, Lit(205, 10))
    /\ count(tempStats) = 0

---------------------------------------------------------------------------
(* SpecWeight: a hive that has been running for weeks, from the reset      *)
(* state or from a restored one                                            *)

WeightPrefix == 950     \* updateLearningModel calls before the observed ones
MaxWeightCalls == 110   \* observed calls after them

InitWeight ==
    /\ \E c \in {"ok", "absent"} : Holds(ZeroMem(c, NoFile))
    /\ phase = "boot"
    /\ config = NoOverrides
    /\ calls = 0
    /\ env = << Normal >>
    /\ odd = 0
    /\ restarts = 0
    /\ cuts = 0
    /\ samples = << >>
    /\ fresh = TRUE
    /\ wasEstablished = FALSE
    /\ last = [op |-> "init"]

\* setup() without LEARN.DAT, then WeightPrefix updateLearningModel calls in
\* a steady hive
SettleRun ==
    /\ phase = "boot"
    /\ \E m \in { RunUpdates(setupLearning(Mem, CHOOSE g \in Garbage : TRUE, 7),
                             [i \in 1 .. WeightPrefix |-> Normal]) } : Install(m)
    /\ phase' = "run"
    /\ env' \in Regimes
    /\ wasEstablished' = baselineEstablished'
    /\ last' = [op |-> "settleRun"]
    /\ UNCHANGED << config, calls, odd, restarts, cuts, samples, fresh >>

\* setup() without LEARN.DAT, updateLearningModel up to the first periodic
\* save, a power cycle, setup() again, which loads what was saved, then
\* WeightPrefix updateLearningModel calls in a steady hive
RestoredRun ==
    /\ phase = "boot"
    /\ card = "ok"
    /\ \E m0 \in { RunUpdates(setupLearning(Mem, CHOOSE g \in Garbage : TRUE, 7),
                              [i \in 1 .. LEARNING_SAVE_INTERVAL |-> Normal]) } :
       \E m1 \in { setupLearning(ZeroMem(card, m0.learnFile),
                                 CHOOSE g \in GarbageFor(m0.learnFile) : TRUE, 7) } :
       \E m \in { RunUpdates(m1, [i \in 1 .. WeightPrefix |-> Normal]) } :
            /\ m0.learnFile.exists
            /\ count(m1.weightStats) = 30
            /\ Install(m)
    /\ phase' = "run"
    /\ env' \in Regimes
    /\ restarts' = restarts + 1
    /\ wasEstablished' = baselineEstablished'
    /\ last' = [op |-> "restoredRun"]
    /\ UNCHANGED << config, calls, odd, cuts, samples, fresh >>

WeightUpdate == Update(MaxWeightCalls)

NextWeight ==
    \/ SettleRun
    \/ RestoredRun
    \/ WeightUpdate

SpecWeight == InitWeight /\ [][NextWeight]_vars

\* C30: the memory of the weight estimator is bounded: weightStats.count()
\* never exceeds 250, and the partialReset of a periodic adaptation leaves it
\* at 200 or less
C30_WeightCountBounded ==
    /\ count(weightStats) <= 250
    /\ (last.op = "updateLearningModel" /\ Adapted(Mem))
            => count(weightStats) <= 200

C30_Witness ==
    /\ last.op = "updateLearningModel"
    /\ restarts = 1
    /\ last.before.baselineEstablished
    /\ count(last.before.weightStats) >= 240
    /\ Adapted(Mem)
    /\ count(weightStats) < count(last.before.weightStats)

=============================================================================
